---- MODULE Spec2Model ----
(***************************************************************************)
(* Model of src/main.py: the FastAPI application that forwards code to the *)
(* Judge0 sandbox (run_code, with its in-memory `executions` session       *)
(* store) and prompts to the OpenAI completion service.                    *)
(*                                                                         *)
(* Python strings that the code concatenates or inspects (stdin, stdout,   *)
(* diagnostics) are sequences of one-character strings.  Python None in    *)
(* such a slot is the one-element sequence None, a JSON key that is        *)
(* missing is Absent.  Session ids are pairs <<tag, n>>.                   *)
(***************************************************************************)
EXTENDS Integers, Sequences, FiniteSets, TLC

(* ------------------------------ bounds -------------------------------- *)

\* number of request slots (requests that can be in flight together)
NReq == 2

\* total number of HTTP requests submitted in one behaviour
MaxCalls == 3

Reqs == 1..NReq

(* ------------------------- program constants -------------------------- *)

CpuTimeLimit == 10

MemoryLimit == 262144

OpenAITimeout == 30

(* ------------------------------ values -------------------------------- *)

None == <<"None">>

Absent == <<"Absent">>

NL == "\n"

NoId == <<"None", 0>>

\* the empty string given as execution_id
EmptyId == <<"str", 0>>

\* a string the caller made up, e.g. "does-not-exist"
CallerId == <<"str", 1>>

\* str(uuid.uuid4()): the n-th identifier the process generates
Uuid(n) == <<"uuid", n>>

IsUuid(id) == id[1] = "uuid"

\* Python truthiness of Optional[str] execution_id
TruthyId(id) == id # NoId /\ id # EmptyId

\* Python truthiness of an Optional[str]
Truthy(s) == s # None /\ s # <<>>

\* Python `a or b`
PyOr(a, b) == IF Truthy(a) THEN a ELSE b

Sources == {"P1", "P2"}

\* the language_id of a request (71: Python 3 at Judge0)
LanguageIds == {71}

StdinChoices == {None, <<>>, <<"a">>, <<"b">>}

LlmEndpoints == {"explain_error", "translate_code", "debug_code", "chatgpt_search"}

(* ------------------------- string operations -------------------------- *)

LowerChar(c) ==
    CASE c = "A" -> "a" [] c = "B" -> "b" [] c = "C" -> "c" [] c = "D" -> "d" [] c = "E" -> "e"
      [] c = "F" -> "f" [] c = "G" -> "g" [] c = "H" -> "h" [] c = "I" -> "i" [] c = "J" -> "j"
      [] c = "K" -> "k" [] c = "L" -> "l" [] c = "M" -> "m" [] c = "N" -> "n" [] c = "O" -> "o"
      [] c = "P" -> "p" [] c = "Q" -> "q" [] c = "R" -> "r" [] c = "S" -> "s" [] c = "T" -> "t"
      [] c = "U" -> "u" [] c = "V" -> "v" [] c = "W" -> "w" [] c = "X" -> "x" [] c = "Y" -> "y"
      [] c = "Z" -> "z"
      [] OTHER -> c

\* str.lower()
Lower(s) == [i \in 1..Len(s) |-> LowerChar(s[i])]

\* sub in s
Contains(s, sub) ==
    \E i \in 0..(Len(s) - Len(sub)) : SubSeq(s, i + 1, i + Len(sub)) = sub

\* s.endswith(suf)
EndsWith(s, suf) ==
    Len(s) >= Len(suf) /\ SubSeq(s, Len(s) - Len(suf) + 1, Len(s)) = suf

\* s.startswith(pre)
StartsWith(s, pre) ==
    Len(s) >= Len(pre) /\ SubSeq(s, 1, Len(pre)) = pre

(* -------------------------- sandbox results --------------------------- *)

StdoutHi == <<"h", "i", NL>>

StdoutPrompt == <<"N", "a", "m", "e", ":", " ">>

StdoutInput == <<"I", "n", "P", "U", "T", "?">>

Diag == <<"E">>

Msg == <<"M">>

\* the detail of line 136's HTTPException, "Judge0 connection error: ..."
Judge0ConnectionError == <<"J">>

\* the JSON bodies Judge0 answers with (wait=true), one per shape of outcome
Results ==
    { [stdout |-> StdoutHi, stderr |-> None, compile_output |-> None, message |-> None],
      [stdout |-> StdoutPrompt, stderr |-> None, compile_output |-> None, message |-> None],
      [stdout |-> StdoutInput, stderr |-> Diag, compile_output |-> None, message |-> Msg],
      [stdout |-> None, stderr |-> None, compile_output |-> Diag, message |-> Msg],
      [stdout |-> Absent, stderr |-> <<>>, compile_output |-> <<>>, message |-> Msg] }

\* requests.exceptions.RequestException raised by post() or raise_for_status()
TransportFailures == {"ConnectionError", "HTTPError"}

\* result.get(key, "")
PyGet(result, key) == IF result[key] = Absent THEN <<>> ELSE result[key]

\* line 116
Output(result) == PyGet(result, "stdout")

\* mutant: the compile diagnostic is preferred to the runtime error
Error_CompileFirst(result) ==
    PyOr(PyGet(result, "compile_output"),
         PyOr(PyGet(result, "stderr"), PyGet(result, "message")))

\* line 117
Error(result) ==
    PyOr(PyGet(result, "stderr"),
         PyOr(PyGet(result, "compile_output"), PyGet(result, "message")))

\* mutant: "input" is looked for without lower-casing
RequiresInput_CaseSensitive(output) ==
    Contains(output, <<"i", "n", "p", "u", "t">>) \/ EndsWith(output, <<":", " ">>)

\* line 119; output.lower() raises AttributeError when output is None
RequiresInput(output) ==
    Contains(Lower(output), <<"i", "n", "p", "u", "t">>) \/ EndsWith(output, <<":", " ">>)

(* ------------------------------- state -------------------------------- *)

VARIABLES
    executions,   \* the module-level dict `executions`
    nextUuid,     \* how many uuid4() values the process has drawn, plus one
    calls,        \* HTTP requests submitted so far
    pc,           \* per slot: idle, queued, blocked (in requests.post), awaiting (httpx)
    request,      \* per slot: the endpoint and, once the handler runs, the request body
    known,        \* per slot: the execution ids its caller had been given on sending
    local,        \* per slot: run_code's locals source_code, stdin, execution_id
    invocations,  \* per slot: the JSON bodies posted to Judge0 by this call
    before,       \* per slot: `executions` when the handler started
    overlapped,   \* per slot: continuations that returned while this call was in flight
    last,         \* the call that has just returned: its request, locals and
                  \* response, how the remote service answered, the store after it
                  \* (NoCall once the server has gone on to something else)
    issued        \* execution ids returned in some response

vars == <<executions, nextUuid, calls, pc, request, known, local,
          invocations, before, overlapped, last, issued>>

EmptyStore == [id \in {} |-> 0]

NoRequest ==
    [endpoint |-> "none", language_id |-> 0, source_code |-> "None", stdin |-> None,
     execution_id |-> NoId]

NoLocal ==
    [source_code |-> "None", stdin |-> None, execution_id |-> NoId, continuing |-> FALSE]

NoResponse ==
    [status |-> 0, kind |-> "none", output |-> None, error |-> None,
     requires_input |-> FALSE, execution_id |-> NoId]

\* no JSON body of Judge0 (the call was not answered with one)
NoResult ==
    [stdout |-> Absent, stderr |-> Absent, compile_output |-> Absent, message |-> Absent]

NoCall ==
    [request |-> NoRequest, local |-> NoLocal, response |-> NoResponse,
     invocations |-> <<>>, before |-> EmptyStore, overlapped |-> {},
     answer |-> "none", result |-> NoResult, after |-> EmptyStore]

\* ids a caller can present: nothing, a made-up string, or an id some response
\* had given out when the request was sent (a uuid4 nobody was given cannot be
\* guessed)
PresentableIds(r) == {NoId, CallerId} \cup known[r]

\* the bodies a /run_code/ request of slot r can carry
RunRequests(r) ==
    [endpoint : {"run_code"}, language_id : LanguageIds, source_code : Sources,
     stdin : StdinChoices, execution_id : PresentableIds(r)]

\* what a queued request is known by: the run_code route, or one of the four
\* LLM routes, whose handlers are alike up to the shaping of the result
Routes == {"run_code", "llm"}

Init ==
    /\ executions = EmptyStore
    /\ nextUuid = 1
    /\ calls = 0
    /\ pc = [r \in Reqs |-> "idle"]
    /\ request = [r \in Reqs |-> NoRequest]
    /\ known = [r \in Reqs |-> {}]
    /\ local = [r \in Reqs |-> NoLocal]
    /\ invocations = [r \in Reqs |-> <<>>]
    /\ before = [r \in Reqs |-> EmptyStore]
    /\ overlapped = [r \in Reqs |-> {}]
    /\ last = NoCall
    /\ issued = {}

(* --------------------------- the event loop --------------------------- *)

InFlight(r) == pc[r] \in {"queued", "blocked", "awaiting"}

\* mutant: the post is awaited, so other handlers run while Judge0 works (two
\* continuations of one id then read the same stored input and the later write
\* drops the earlier chunk)
LoopBlocked_Never == FALSE

\* run_code is a coroutine (async def, line 86) that calls the synchronous
\* requests.post (line 101) without awaiting: from its first line to its return
\* it holds the event loop's only thread, so no other coroutine runs meanwhile.
LoopBlocked == \E r \in Reqs : pc[r] = "blocked"

(* ------------------------------ run_code ------------------------------ *)

\* line 88
IsContinuation(store, rq) ==
    TruthyId(rq.execution_id) /\ rq.execution_id \in DOMAIN store

\* lines 90 and 94
ResolvedSource(store, rq) ==
    IF IsContinuation(store, rq)
    THEN store[rq.execution_id].source_code
    ELSE rq.source_code

\* mutant: a continuation sends the new chunk alone, without what is stored
ResolvedStdin_Forget(store, rq) == PyOr(rq.stdin, <<>>)

\* mutant: the separator is added only in front of a non-empty chunk
ResolvedStdin_NoEmptySeparator(store, rq) ==
    IF IsContinuation(store, rq)
    THEN (IF Truthy(rq.stdin)
          THEN store[rq.execution_id].stdin \o <<NL>> \o rq.stdin
          ELSE store[rq.execution_id].stdin)
    ELSE PyOr(rq.stdin, <<>>)

\* lines 91 and 95
ResolvedStdin(store, rq) ==
    IF IsContinuation(store, rq)
    THEN store[rq.execution_id].stdin \o <<NL>> \o PyOr(rq.stdin, <<>>)
    ELSE PyOr(rq.stdin, <<>>)

\* d[key] = value
Put(store, key, value) ==
    [k \in DOMAIN store \cup {key} |-> IF k = key THEN value ELSE store[k]]

\* lines 88-99: the store once the session is resolved; `fresh` is line 93's uuid
StoreAfterResolve(store, rq, fresh) ==
    IF IsContinuation(store, rq)
    THEN store
    ELSE Put(store, fresh,
             [source_code |-> ResolvedSource(store, rq),
              stdin |-> ResolvedStdin(store, rq)])

\* mutant: the limits are left at Judge0's defaults
Payload_DefaultLimits(source_code, language_id, stdin) ==
    [source_code |-> source_code, language_id |-> language_id, stdin |-> stdin,
     cpu_time_limit |-> 5, memory_limit |-> 128000]

\* lines 103-109
Payload(source_code, language_id, stdin) ==
    [source_code |-> source_code, language_id |-> language_id, stdin |-> stdin,
     cpu_time_limit |-> CpuTimeLimit, memory_limit |-> MemoryLimit]

\* mutant: a new id is minted whenever the program awaits input
ReturnedId_AlwaysFresh(rq, requires_input, fresh) ==
    IF requires_input THEN fresh ELSE NoId

\* lines 121-125: the execution_id of the response; `fresh` is line 122's uuid
ReturnedId(rq, requires_input, fresh) ==
    IF requires_input
    THEN (IF TruthyId(rq.execution_id) THEN rq.execution_id ELSE fresh)
    ELSE NoId

\* mutant: the request's source_code is stored instead of the one that ran
StoreAfterClassify_RequestSource(store, rq, loc, requires_input, fresh) ==
    IF requires_input
    THEN Put(store, ReturnedId(rq, requires_input, fresh),
             [source_code |-> rq.source_code, stdin |-> loc.stdin])
    ELSE store

\* mutant: the dict is rebound to the one session instead of updated
StoreAfterClassify_Rebind(store, rq, loc, requires_input, fresh) ==
    IF requires_input
    THEN Put(EmptyStore, ReturnedId(rq, requires_input, fresh),
             [source_code |-> loc.source_code, stdin |-> loc.stdin])
    ELSE store

\* lines 121-125: the store once the result is classified
StoreAfterClassify(store, rq, loc, requires_input, fresh) ==
    IF requires_input
    THEN Put(store, ReturnedId(rq, requires_input, fresh),
             [source_code |-> loc.source_code, stdin |-> loc.stdin])
    ELSE store

\* mutant: the handler drops the session of the failed call
StoreAfterFailure_Drop(store, rq, loc) ==
    [k \in DOMAIN store \ {rq.execution_id, loc.execution_id} |-> store[k]]

\* lines 134-136: the store once a RequestException is handled
StoreAfterFailure(store, rq, loc) == store

\* an HTTP request arrives at an endpoint and its handler coroutine is scheduled
\* (slots are interchangeable: the lowest idle one is taken); the body is first
\* read when the handler runs
Submit(r) ==
    /\ pc[r] = "idle"
    /\ \A q \in 1..(r - 1) : pc[q] # "idle"
    /\ calls < MaxCalls
    /\ \E e \in Routes :
          request' = [request EXCEPT ![r] = [NoRequest EXCEPT !.endpoint = e]]
    /\ known' = [known EXCEPT ![r] = issued]
    /\ calls' = calls + 1
    /\ pc' = [pc EXCEPT ![r] = "queued"]
    /\ last' = NoCall
    /\ UNCHANGED <<executions, nextUuid, local, invocations, before, overlapped,
                   issued>>

\* lines 87-111: with request body rq, resolve the session and post to Judge0
RunCodeStart(r) ==
    /\ pc[r] = "queued"
    /\ request[r].endpoint = "run_code"
    /\ ~LoopBlocked
    /\ \E rq \in RunRequests(r) :
         LET cont == IsContinuation(executions, rq)
             src == ResolvedSource(executions, rq)
             inp == ResolvedStdin(executions, rq)
         IN /\ request' = [request EXCEPT ![r] = rq]
            /\ executions' = StoreAfterResolve(executions, rq, Uuid(nextUuid))
            /\ nextUuid' = IF cont THEN nextUuid ELSE nextUuid + 1
            /\ local' = [local EXCEPT ![r] =
                           [source_code |-> src, stdin |-> inp,
                            execution_id |-> IF cont THEN NoId ELSE Uuid(nextUuid),
                            continuing |-> cont]]
            /\ invocations' = [invocations EXCEPT ![r] = <<Payload(src, rq.language_id, inp)>>]
    /\ before' = [before EXCEPT ![r] = executions]
    /\ pc' = [pc EXCEPT ![r] = "blocked"]
    /\ last' = NoCall
    /\ UNCHANGED <<calls, known, overlapped, issued>>

\* the handler of slot r returns `resp` after the remote service answered with
\* `answer` (for Judge0's 2xx, the JSON body `result`): the slot is released and
\* the call recorded
Return(r, rq, resp, answer, result) ==
    /\ last' = [request |-> rq, local |-> local[r], response |-> resp,
                invocations |-> invocations[r], before |-> before[r],
                overlapped |-> overlapped[r], answer |-> answer, result |-> result,
                after |-> executions']
    /\ pc' = [pc EXCEPT ![r] = "idle"]
    /\ request' = [request EXCEPT ![r] = NoRequest]
    /\ known' = [known EXCEPT ![r] = {}]
    /\ local' = [local EXCEPT ![r] = NoLocal]
    /\ invocations' = [invocations EXCEPT ![r] = <<>>]
    /\ before' = [before EXCEPT ![r] = EmptyStore]
    /\ overlapped' =
         [q \in Reqs |->
            IF q # r /\ InFlight(q) /\ local[r].continuing /\ resp.requires_input
            THEN overlapped[q] \cup {[execution_id |-> resp.execution_id,
                                      stdin |-> request[r].stdin]}
            ELSE IF q = r THEN {} ELSE overlapped[q]]

\* lines 112-132: Judge0 answered 2xx with `result`
RunCodeReturn(r, result) ==
    /\ pc[r] = "blocked"
    /\ LET rq == request[r]
           output == Output(result)
       IN IF output = None
          THEN \* line 119: AttributeError, not a RequestException: unhandled, 500
               /\ UNCHANGED <<executions, nextUuid, issued>>
               /\ Return(r, rq, [NoResponse EXCEPT !.status = 500, !.kind = "unhandled"],
                         "result", result)
          ELSE LET ri == RequiresInput(output)
                   mint == ri /\ ~TruthyId(rq.execution_id)
                   id == ReturnedId(rq, ri, Uuid(nextUuid))
               IN /\ executions' =
                        StoreAfterClassify(executions, rq, local[r], ri, Uuid(nextUuid))
                  /\ nextUuid' = IF mint THEN nextUuid + 1 ELSE nextUuid
                  /\ Return(r, rq, [status |-> 200, kind |-> "ok", output |-> output,
                                error |-> Error(result), requires_input |-> ri,
                                execution_id |-> id], "result", result)
                  /\ issued' = IF id = NoId THEN issued ELSE issued \cup {id}
    /\ UNCHANGED calls

\* lines 134-136: post() or raise_for_status() raised a RequestException
RunCodeTransportFailure(r, exc) ==
    /\ pc[r] = "blocked"
    /\ executions' = StoreAfterFailure(executions, request[r], local[r])
    /\ Return(r, request[r],
              [NoResponse EXCEPT !.status = 502, !.kind = "http_exception",
                                 !.error = Judge0ConnectionError], exc, NoResult)
    /\ UNCHANGED <<nextUuid, calls, issued>>

(* ------------------------ LLM-backed endpoints ------------------------ *)

Completion == <<"t">>

ErrorFetchingCode == <<"F">>

\* how `await client.post(...)` plus raise_for_status() can end when the
\* service answers or the connection fails (line 68-69)
LlmAnswers == {"choices", "empty_choices", "HTTPStatusError", "ConnectError"}

\* how it ends when the 30 s httpx timeout elapses first (line 67)
LlmTimeouts == {"ReadTimeout", "ConnectTimeout"}

\* lines 66-77: the dict make_openai_request returns, or the exception it lets through
MakeOpenAIRequest(ending) ==
    CASE ending = "choices" -> [raised |-> FALSE, choices |-> "one", error |-> "absent"]
      [] ending = "empty_choices" -> [raised |-> FALSE, choices |-> "empty", error |-> "absent"]
      [] ending = "HTTPStatusError" -> [raised |-> FALSE, choices |-> "absent", error |-> "failed"]
      [] ending = "ReadTimeout" -> [raised |-> FALSE, choices |-> "absent", error |-> "timed out"]
      [] OTHER -> [raised |-> TRUE, choices |-> "absent", error |-> "absent"]

Unhandled == [NoResponse EXCEPT !.status = 500, !.kind = "unhandled"]

Handled500(detail) ==
    [NoResponse EXCEPT !.status = 500, !.kind = "http_exception", !.error = <<detail>>]

Ok200(text) == [NoResponse EXCEPT !.status = 200, !.kind = "ok", !.output = text]

\* result["choices"][0]["message"]["content"]: KeyError or IndexError without a candidate
FirstChoice(result) == IF result.choices = "one" THEN Ok200(Completion) ELSE Unhandled

\* lines 148-149
ExplainError(result) == IF result.raised THEN Unhandled ELSE FirstChoice(result)

\* lines 165-170 and 182-187
TranslateOrDebug(result) ==
    IF result.raised THEN Unhandled
    ELSE IF result.error # "absent" THEN Handled500(result.error)
    ELSE FirstChoice(result)

\* lines 199-200: result.get("choices", [{}])[0].get("message", {}).get("content", ...)
ChatgptSearch(result) ==
    IF result.raised THEN Unhandled
    ELSE IF result.choices = "absent" THEN Ok200(ErrorFetchingCode)
    ELSE FirstChoice(result)

EndpointResponse(endpoint, result) ==
    CASE endpoint = "explain_error" -> ExplainError(result)
      [] endpoint = "chatgpt_search" -> ChatgptSearch(result)
      [] OTHER -> TranslateOrDebug(result)

\* the handler runs up to `await client.post(...)` (line 68) and yields the loop
LlmStart(r) ==
    /\ pc[r] = "queued"
    /\ request[r].endpoint = "llm"
    /\ ~LoopBlocked
    /\ pc' = [pc EXCEPT ![r] = "awaiting"]
    /\ last' = NoCall
    /\ UNCHANGED <<executions, nextUuid, calls, request, known, local,
                   invocations, before, overlapped, issued>>

\* the awaited post ends with `ending`; the coroutine resumes on the loop and the
\* handler of the endpoint the request went to shapes the response
LlmFinish(r, ending) ==
    /\ pc[r] = "awaiting"
    /\ ~LoopBlocked
    /\ UNCHANGED <<executions, nextUuid, calls, issued>>
    /\ \E e \in LlmEndpoints :
          Return(r, [request[r] EXCEPT !.endpoint = e],
                 EndpointResponse(e, MakeOpenAIRequest(ending)), ending, NoResult)

\* the completion service answered, or the connection failed
LlmAnswer(r) == \E ending \in LlmAnswers : LlmFinish(r, ending)

\* httpx.AsyncClient(timeout=30.0): the loop's timer fires before any answer
LlmTimeout(r) == \E ending \in LlmTimeouts : LlmFinish(r, ending)

\* Judge0 answered: 2xx with a JSON body, or a transport failure
SandboxAnswer(r) ==
    \/ \E exc \in TransportFailures : RunCodeTransportFailure(r, exc)
    \/ \E result \in Results : RunCodeReturn(r, result)

(* --------------------------- specifications --------------------------- *)

Next ==
    \E r \in Reqs :
        \/ Submit(r)
        \/ RunCodeStart(r)
        \/ SandboxAnswer(r)
        \/ LlmStart(r)
        \/ LlmAnswer(r)
        \/ LlmTimeout(r)

Spec == Init /\ [][Next]_vars

\* The event loop runs every runnable coroutine and fires every due timer; the
\* remote services (Judge0, OpenAI) and the callers owe nothing.
FairSpec ==
    /\ Spec
    /\ \A r \in Reqs :
          /\ WF_vars(RunCodeStart(r))
          /\ WF_vars(LlmStart(r))
          /\ WF_vars(LlmTimeout(r))

(* -------------- one sandbox response, classified (116-132) ------------- *)

CompileOutput == <<"C">>

StdoutLower == <<"i", "n", "p", "u", "t">>

\* "in" and "put" apart, and ": " not at the end
StdoutSplit == <<"i", "n", ":", " ", "p", "u", "t">>

StdoutColonNL == <<":", " ", NL>>

\* every shape of Judge0's JSON body: each of the four fields missing, null, empty
\* or a text
ClassifyResults ==
    [stdout : {Absent, None, <<>>, StdoutHi, StdoutPrompt, StdoutInput, StdoutLower,
               StdoutSplit, StdoutColonNL},
     stderr : {Absent, None, <<>>, Diag},
     compile_output : {Absent, None, <<>>, CompileOutput},
     message : {Absent, None, <<>>, Msg}]

\* an earlier call: a new run of P2 with input "a" that was classified as awaiting
FirstRequest ==
    [endpoint |-> "run_code", language_id |-> 71, source_code |-> "P2",
     stdin |-> <<"a">>, execution_id |-> NoId]

\* the store that call left: line 96's entry under the first uuid and line 123's
\* under the second, which is the id it returned
StoreAfterFirst ==
    StoreAfterClassify(StoreAfterResolve(EmptyStore, FirstRequest, Uuid(1)),
                       FirstRequest,
                       [source_code |-> ResolvedSource(EmptyStore, FirstRequest),
                        stdin |-> ResolvedStdin(EmptyStore, FirstRequest)],
                       TRUE, Uuid(2))

\* a run_code call has resolved its session and waits in requests.post (line 101):
\* the first call of the process, or a second one after FirstRequest
ClassifyInit ==
    \E started \in BOOLEAN :
        LET store == IF started THEN StoreAfterFirst ELSE EmptyStore
            drawn == IF started THEN 3 ELSE 1
            given == IF started THEN {Uuid(2)} ELSE {}
        IN \E rq \in [endpoint : {"run_code"}, language_id : LanguageIds,
                      source_code : {"P1"}, stdin : {None, <<"b">>},
                      execution_id : {NoId, CallerId} \cup given] :
              LET cont == IsContinuation(store, rq)
                  src == ResolvedSource(store, rq)
                  inp == ResolvedStdin(store, rq)
              IN /\ executions = StoreAfterResolve(store, rq, Uuid(drawn))
                 /\ nextUuid = IF cont THEN drawn ELSE drawn + 1
                 /\ calls = IF started THEN 2 ELSE 1
                 /\ pc = [r \in Reqs |-> IF r = 1 THEN "blocked" ELSE "idle"]
                 /\ request = [r \in Reqs |-> IF r = 1 THEN rq ELSE NoRequest]
                 /\ known = [r \in Reqs |-> IF r = 1 THEN given ELSE {}]
                 /\ local = [r \in Reqs |->
                               IF r = 1
                               THEN [source_code |-> src, stdin |-> inp,
                                     execution_id |-> IF cont THEN NoId ELSE Uuid(drawn),
                                     continuing |-> cont]
                               ELSE NoLocal]
                 /\ invocations = [r \in Reqs |->
                                     IF r = 1
                                     THEN <<Payload(src, rq.language_id, inp)>>
                                     ELSE <<>>]
                 /\ before = [r \in Reqs |-> IF r = 1 THEN store ELSE EmptyStore]
                 /\ overlapped = [r \in Reqs |-> {}]
                 /\ last = NoCall
                 /\ issued = given

\* lines 112-132 on each body Judge0 can answer with
Classify == \E result \in ClassifyResults : RunCodeReturn(1, result)

ClassifySpec == ClassifyInit /\ [][Classify]_vars

(* ------------------------- the call just returned ---------------------- *)

LastIsRun == last.request.endpoint = "run_code"

\* the call was answered by Judge0 with a 2xx JSON body and run_code returned normally
LastReturned == LastIsRun /\ last.response.status = 200

LastFailed == LastIsRun /\ last.answer \in TransportFailures

LastContinued == LastIsRun /\ last.local.continuing

\* the session of the run: the caller's when continuing, else the one line 96 created
LastSession ==
    IF last.local.continuing THEN last.request.execution_id ELSE last.local.execution_id

\* the chunk the caller supplied, absent read as empty
LastChunk == IF last.request.stdin = None THEN <<>> ELSE last.request.stdin

(* ------------------------------- claims -------------------------------- *)

\* C1 (as claimed): after a run_code call classified as not awaiting input, the
\* session used for the run (the caller's id when continuing, else the session the
\* call created) is not in the executions store any more.
C1_SessionRetired ==
    (LastReturned /\ ~last.response.requires_input)
        => LastSession \notin DOMAIN last.after

\* C2: a continuation whose sandbox request fails at the transport level leaves the
\* session's stored source_code and stdin as they were and ends with HTTP 502.
C2_TransportFailureIsolation ==
    (LastFailed /\ LastContinued)
        => /\ last.request.execution_id \in DOMAIN last.after
           /\ last.after[last.request.execution_id]
                = last.before[last.request.execution_id]
           /\ last.response.status = 502
           /\ last.response.kind = "http_exception"

C2_Witness ==
    /\ LastFailed /\ LastContinued
    /\ last.answer = "HTTPError"
    /\ Truthy(last.request.stdin)
    /\ last.response.status = 502

\* C3 (as claimed): after any run_code call whose sandbox request fails at the
\* transport level, the whole store equals the store before the call.
C3_NoTransitionOnFailure == LastFailed => last.after = last.before

\* C4: for a run_code call that returns normally, the returned execution_id is
\* non-null exactly when requires_input is true; a non-null id maps in the store to
\* the source and input stream sent to the sandbox in this call; a continuation
\* returns the caller's id.
C4_ContinuationId ==
    LastReturned =>
        LET id == last.response.execution_id
            sent == last.invocations[1]
        IN /\ (id # NoId) <=> last.response.requires_input
           /\ id # NoId =>
                /\ id \in DOMAIN last.after
                /\ last.after[id] = [source_code |-> sent.source_code, stdin |-> sent.stdin]
           /\ (id # NoId /\ last.local.continuing) => id = last.request.execution_id

C4_Witness ==
    /\ LastReturned /\ LastContinued
    /\ last.response.requires_input
    /\ last.response.execution_id = last.request.execution_id
    /\ last.request.source_code # last.invocations[1].source_code

\* C5: a call whose execution_id is in the store makes one sandbox invocation, with
\* the session's stored source_code (not the request's) and the stored input, then a
\* newline, then the supplied chunk; the newline is there for an empty or absent chunk.
C5_ReplayOnContinuation ==
    /\ LastContinued =>
          /\ Len(last.invocations) = 1
          /\ last.invocations[1].source_code
                = last.before[last.request.execution_id].source_code
          /\ last.invocations[1].stdin
                = last.before[last.request.execution_id].stdin \o <<NL>> \o LastChunk
    /\ \A r \in Reqs :
          (pc[r] = "blocked" /\ local[r].continuing) =>
              /\ Len(invocations[r]) = 1
              /\ invocations[r][1].source_code
                    = before[r][request[r].execution_id].source_code
              /\ invocations[r][1].stdin
                    = before[r][request[r].execution_id].stdin \o <<NL>>
                        \o (IF request[r].stdin = None THEN <<>> ELSE request[r].stdin)

\* a follow-up with an absent chunk on a session whose source differs from the request's
C5_Witness ==
    /\ LastContinued
    /\ last.request.stdin = None
    /\ last.request.source_code # last.before[last.request.execution_id].source_code
    /\ last.invocations[1].stdin = <<"a", NL, "b", NL>>

\* C6: of two concurrent continuations of one execution_id, each with its own
\* non-empty chunk and each classified as awaiting input, both chunks are in the
\* input stored for the id once both have returned.
C6_NoLostUpdate ==
    (LastReturned /\ LastContinued /\ last.response.requires_input
       /\ Truthy(last.request.stdin))
        => \A o \in last.overlapped :
              (o.execution_id = last.request.execution_id
                 /\ Truthy(o.stdin) /\ o.stdin # last.request.stdin)
                  => /\ Contains(last.after[o.execution_id].stdin, o.stdin)
                     /\ Contains(last.after[o.execution_id].stdin, last.request.stdin)

\* two continuations of a session that started with no input were in flight together
C6_Witness ==
    /\ LastReturned /\ LastContinued /\ last.response.requires_input
    /\ Truthy(last.request.stdin)
    /\ \E o \in last.overlapped :
          /\ o.execution_id = last.request.execution_id
          /\ Truthy(o.stdin) /\ o.stdin # last.request.stdin
          /\ last.after[o.execution_id].stdin
                = <<NL>> \o o.stdin \o <<NL>> \o last.request.stdin

\* the record of an id is kept by a call: same source, the old input a prefix of the new
KeepsRecords ==
    \A id \in DOMAIN last.before :
        id \in DOMAIN last.after =>
            /\ last.after[id].source_code = last.before[id].source_code
            /\ StartsWith(last.after[id].stdin, last.before[id].stdin)

\* C7 (as claimed): while an id is in the store its source_code never changes and
\* its input is never shortened or rewritten, and each continuation that supplies a
\* non-empty chunk leaves the stored input equal to old value + newline + chunk.
C7_SessionInvariant_Original ==
    LastIsRun =>
        /\ KeepsRecords
        /\ (LastContinued /\ Truthy(last.request.stdin)
              /\ last.request.execution_id \in DOMAIN last.after)
             => last.after[last.request.execution_id].stdin
                  = last.before[last.request.execution_id].stdin
                      \o <<NL>> \o last.request.stdin

\* C7 (amended): while an id is in the store its source_code never changes and
\* its input is never shortened or rewritten, and each continuation that supplies a
\* non-empty chunk and is classified as awaiting input leaves the stored input
\* equal to old value + newline + chunk, a strict extension.
C7_SessionInvariant ==
    LastIsRun =>
        /\ KeepsRecords
        /\ (LastContinued /\ Truthy(last.request.stdin)
              /\ LastReturned /\ last.response.requires_input)
             => LET id == last.request.execution_id
                IN /\ id \in DOMAIN last.after
                   /\ last.after[id].stdin
                        = last.before[id].stdin \o <<NL>> \o last.request.stdin
                   /\ Len(last.after[id].stdin) > Len(last.before[id].stdin)

C7_Witness ==
    /\ LastReturned /\ LastContinued /\ last.response.requires_input
    /\ Truthy(last.request.stdin)
    /\ last.request.source_code # last.before[last.request.execution_id].source_code
    /\ Len(last.before[last.request.execution_id].stdin) > 1

\* uuids no earlier call drew
FreshIds == {Uuid(n) : n \in 1..(2 * MaxCalls)} \ DOMAIN last.before

\* C8 (as claimed): a call whose execution_id is not in the store ends as the same
\* request without execution_id would: same source and input posted, same response,
\* and the same store and returned id for some choice of the freshly generated ids.
C8_UnknownIdIsNoId ==
    (LastIsRun /\ ~last.local.continuing /\ TruthyId(last.request.execution_id)
       /\ last.response.status # 0)
        => LET omitted == [last.request EXCEPT !.execution_id = NoId]
               ri == last.response.requires_input
           IN /\ last.invocations[1]
                   = Payload(ResolvedSource(last.before, omitted), omitted.language_id,
                             ResolvedStdin(last.before, omitted))
              /\ \E f1, f2 \in FreshIds :
                    /\ f1 # f2
                    /\ last.after
                         = StoreAfterClassify(StoreAfterResolve(last.before, omitted, f1),
                                              omitted, last.local, ri, f2)
                    /\ last.response.execution_id = ReturnedId(omitted, ri, f2)

\* a coroutine that is ready to run can take its next step
CanRun(q) == ENABLED (RunCodeStart(q) \/ LlmStart(q) \/ LlmTimeout(q))

\* C10 (as claimed): while one run_code request waits for the sandbox, any other
\* request in flight can still make progress.
C10_NonStalling ==
    \A r \in Reqs :
        pc[r] = "blocked" =>
            \A q \in Reqs \ {r} : pc[q] \in {"queued", "awaiting"} => CanRun(q)

InDelegation(r) == pc[r] \in {"blocked", "awaiting"}

\* C9 (as claimed): every call that delegates to Judge0 or OpenAI eventually
\* returns, even if the remote service never answers.
C9_BoundedWait == \A r \in Reqs : InDelegation(r) ~> ~InDelegation(r)

\* the sandbox answered 2xx with a JSON body
LastAnswered == LastIsRun /\ last.answer = "result"

\* C11 (as claimed): whichever of stdout, stderr, compile_output and message are
\* missing or null in the sandbox's 2xx answer, run_code returns normally (status
\* 200 with output, error, requires_input, execution_id), with error populated
\* when the answer carries a diagnostic text; it never ends in an unhandled error.
C11_ProgramFailureIsNormal ==
    LastAnswered =>
        /\ last.response.status = 200
        /\ last.response.kind = "ok"
        /\ (\E f \in {"stderr", "compile_output", "message"} :
               last.result[f] \notin {Absent, None, <<>>})
             => last.response.error \notin {None, <<>>}

\* an LLM-backed call whose completion service failed at the transport level or
\* answered without a candidate
LastCompletionUnavailable ==
    /\ last.request.endpoint \in LlmEndpoints
    /\ last.answer \in (LlmAnswers \cup LlmTimeouts) \ {"choices"}

\* C12 (as claimed): on each LLM-backed endpoint, an HTTP error status, a timeout,
\* a connection failure or an answer with no candidate ends the request with a
\* completion-unavailable outcome (an error response, or an error value in a 200
\* response), never with an unhandled exception.
C12_CompletionUnavailable ==
    LastCompletionUnavailable =>
        \/ last.response.kind = "http_exception"
        \/ last.response.kind = "ok" /\ last.response.output = ErrorFetchingCode

\* C13 (as claimed): every key of the executions store is an identifier the process
\* generated with uuid4; a string a caller chose never becomes a key.
C13_SystemGeneratedIds ==
    \A id \in DOMAIN executions :
        /\ IsUuid(id)
        /\ \E n \in 1..(nextUuid - 1) : id = Uuid(n)

\* one JSON body posted to Judge0, carrying cpu_time_limit 10 and memory_limit 262144
OneDelegation(posted) ==
    /\ Len(posted) = 1
    /\ posted[1].cpu_time_limit = 10
    /\ posted[1].memory_limit = 262144

\* C14: every run_code call posts to Judge0 exactly once, whether the post succeeds
\* or fails (no retry), and the body always carries cpu_time_limit 10 and
\* memory_limit 262144, whatever the request holds; no other call posts to Judge0.
C14_ExactlyOneDelegation ==
    /\ (LastIsRun /\ last.response.status # 0) => OneDelegation(last.invocations)
    /\ (~LastIsRun) => last.invocations = <<>>
    /\ \A r \in Reqs :
          IF pc[r] = "blocked" THEN OneDelegation(invocations[r])
          ELSE invocations[r] = <<>>

\* a continuation whose post failed: one body posted, with the session's source
C14_Witness ==
    /\ LastFailed /\ LastContinued
    /\ last.response.status = 502
    /\ Len(last.invocations) = 1
    /\ last.invocations[1].memory_limit = 262144
    /\ last.invocations[1].source_code # last.request.source_code
    /\ last.request.stdin = <<>>

\* the text has the letters i, n, p, u, t in a row, in either case, or its last two
\* characters are a colon and a space
SaysInput(s) ==
    \/ \E i \in 1..(Len(s) - 4) :
          /\ s[i] \in {"i", "I"}
          /\ s[i + 1] \in {"n", "N"}
          /\ s[i + 2] \in {"p", "P"}
          /\ s[i + 3] \in {"u", "U"}
          /\ s[i + 4] \in {"t", "T"}
    \/ Len(s) >= 2 /\ s[Len(s) - 1] = ":" /\ s[Len(s)] = " "

\* the stdout text of the answer just returned (a missing stdout is the empty text)
LastStdout == IF last.result.stdout = Absent THEN <<>> ELSE last.result.stdout

\* C15: for every sandbox answer whose stdout is a text, requires_input is true
\* exactly when the text contains "input" in any letter case or ends with ": ",
\* whatever stderr, compile_output, message, the store, the session id and the
\* earlier calls are; and requires_input is never true without such a text.
C15_ClassificationIsPure ==
    LastAnswered =>
        /\ last.result.stdout # None =>
              /\ last.response.status = 200
              /\ last.response.output = LastStdout
              /\ last.response.requires_input = SaysInput(LastStdout)
        /\ last.response.requires_input =>
              last.result.stdout # None /\ SaysInput(LastStdout)

\* a continuation of a stored session whose answer has "InPUT?" on stdout and a
\* runtime error on stderr
C15_Witness ==
    /\ LastAnswered /\ LastContinued
    /\ last.result.stdout = StdoutInput
    /\ last.result.stderr = Diag
    /\ last.response.requires_input
    /\ last.response.execution_id = Uuid(2)

\* the field is in the answer with a text of at least one character
NonEmpty(result, key) == result[key] \notin {Absent, None, <<>>}

\* C16: the error of a response run_code returns is the answer's stderr when that is
\* non-empty, otherwise its compile_output when that is non-empty, otherwise its
\* message when that is non-empty, otherwise empty (the empty string, or null when
\* the answer's message is null); it is always one of the fields as it stands.
C16_DiagnosticPriority ==
    LastReturned =>
        LET res == last.result
            err == last.response.error
        IN /\ NonEmpty(res, "stderr") => err = res.stderr
           /\ (~NonEmpty(res, "stderr") /\ NonEmpty(res, "compile_output"))
                => err = res.compile_output
           /\ (~NonEmpty(res, "stderr") /\ ~NonEmpty(res, "compile_output")
                  /\ NonEmpty(res, "message"))
                => err = res.message
           /\ (~NonEmpty(res, "stderr") /\ ~NonEmpty(res, "compile_output")
                  /\ ~NonEmpty(res, "message"))
                => err = (IF res.message = None THEN None ELSE <<>>)

\* stderr empty, compile_output null: the message is returned although the program
\* printed to stdout
C16_Witness ==
    /\ LastReturned
    /\ last.result.stdout = StdoutHi
    /\ last.result.stderr = <<>>
    /\ last.result.compile_output = None
    /\ last.result.message = Msg
    /\ last.response.error = Msg

\* the record of id is the same before and after the call just returned
Untouched(id) ==
    /\ id \in DOMAIN last.before
    /\ id \in DOMAIN last.after
    /\ last.after[id] = last.before[id]

\* C17: a continuation on session id A neither creates, changes nor removes the
\* record of any other id, and a new run neither changes nor removes a record that
\* was in the store when it started, whatever calls are in flight beside it.
C17_SessionIndependence ==
    (LastIsRun /\ last.response.status # 0) =>
        IF last.local.continuing
        THEN \A id \in (DOMAIN last.before \cup DOMAIN last.after)
                          \ {last.request.execution_id} : Untouched(id)
        ELSE \A id \in DOMAIN last.before : Untouched(id)

\* a continuation on A extends A's input while another issued session B is stored
C17_Witness ==
    /\ LastReturned /\ LastContinued
    /\ ~Untouched(last.request.execution_id)
    /\ \E b \in issued \ {last.request.execution_id} :
          /\ Untouched(b)
          /\ last.before[b].source_code
                # last.before[last.request.execution_id].source_code

\* the session ids the call just returned added to the store
LastAdded == DOMAIN last.after \ DOMAIN last.before

\* C18 (as claimed): whenever no run_code call is under way, every id in the
\* executions store has been returned to a caller as the execution_id of some
\* response; a new run adds at most one session, and none when it returns without
\* awaiting input.
C18_NoOrphanSessions ==
    /\ (\A r \in Reqs : pc[r] # "blocked") => DOMAIN executions \subseteq issued
    /\ (LastReturned /\ ~last.local.continuing) =>
          /\ Cardinality(LastAdded) <= 1
          /\ ~last.response.requires_input => LastAdded = {}

====
